---- MODULE Spec2Model ----
(***************************************************************************)
(* Model of the two interactive components of the documentation site:      *)
(*   PageIssueLink  - builds the "report an issue" URL from the current    *)
(*                    route path and the current content-entry identifier  *)
(*   ThemeSelector  - a select over three fixed theme options, shown       *)
(*                    through RefreshOnMount (a one-shot refresh flag)     *)
(* Strings are sequences of one-character strings, so that concatenation,  *)
(* containment and prefixes are computed character by character.           *)
(***************************************************************************)
EXTENDS Integers, Sequences, FiniteSets, TLC

\* ------------------------------------------------------------------ bounds
MaxPathLen == 1      \* characters of a generated path after its leading "/"
MaxEntryLen == 1     \* characters of a generated entry identifier
MaxCalls == 3        \* change events of the select followed in one behaviour
PageMaxCalls == 1    \* the same, when both components run side by side
MaxUsers == 4        \* length of store.users on the stores page

\* Alphabet of the generated inputs: a plain character and the separator of
\* query-string parameters.
Chars == {"a", "&"}

\* All strings over Chars of length at most n.
Strs(n) == UNION {[1..k -> Chars] : k \in 0..n}

\* ------------------------------------------------- string helper operators
\* s starts with p
StartsWith(s, p) ==
    /\ Len(p) <= Len(s)
    /\ SubSeq(s, 1, Len(p)) = p

\* s ends with p
EndsWith(s, p) ==
    /\ Len(p) <= Len(s)
    /\ SubSeq(s, Len(s) - Len(p) + 1, Len(s)) = p

\* p occurs in s as a contiguous substring (String.prototype.includes)
Contains(s, p) ==
    \E i \in 0..(Len(s) - Len(p)) : SubSeq(s, i + 1, i + Len(p)) = p

\* the first position of character c in s, 0 when s does not hold it
IndexOf(s, c) ==
    IF \E k \in 1..Len(s) : s[k] = c
    THEN CHOOSE k \in 1..Len(s) : s[k] = c /\ \A m \in 1..(k - 1) : s[m] # c
    ELSE 0

\* s.split(c)
RECURSIVE Split(_, _)
Split(s, c) ==
    LET k == IndexOf(s, c)
    IN  IF k = 0 THEN <<s>>
        ELSE <<SubSeq(s, 1, k - 1)>> \o Split(SubSeq(s, k + 1, Len(s)), c)

\* ------------------------------------------------ PageIssueLink: constants
\* "https://github.com/solidjs/solid-docs-next/issues/new"
IssueHost ==
    <<"h","t","t","p","s",":","/","/","g","i","t","h",
      "u","b",".","c","o","m","/","s","o","l","i","d",
      "j","s","/","s","o","l","i","d","-","d","o","c",
      "s","-","n","e","x","t","/","i","s","s","u","e",
      "s","/","n","e","w">>

\* "?assignees=ladybluenotes"
QAssignees ==
    <<"?","a","s","s","i","g","n","e","e","s","=","l",
      "a","d","y","b","l","u","e","n","o","t","e","s">>

\* "&labels=improve+documentation%2Cpending+review"
QLabels ==
    <<"&","l","a","b","e","l","s","=","i","m","p","r",
      "o","v","e","+","d","o","c","u","m","e","n","t",
      "a","t","i","o","n","%","2","C","p","e","n","d",
      "i","n","g","+","r","e","v","i","e","w">>

\* "&projects="
QProjects ==
    <<"&","p","r","o","j","e","c","t","s","=">>

\* "&template=CONTENT.yml"
QTemplate ==
    <<"&","t","e","m","p","l","a","t","e","=","C","O",
      "N","T","E","N","T",".","y","m","l">>

\* "&title=[Content]:"
QTitle ==
    <<"&","t","i","t","l","e","=","[","C","o","n","t",
      "e","n","t","]",":">>

\* "&subject="
SubjectKey ==
    <<"&","s","u","b","j","e","c","t","=">>

\* "&page=https://docs.solidjs.com"
PageKey ==
    <<"&","p","a","g","e","=","h","t","t","p","s",":",
      "/","/","d","o","c","s",".","s","o","l","i","d",
      "j","s",".","c","o","m">>

\* "/docs/intro"
ExamplePath ==
    <<"/","d","o","c","s","/","i","n","t","r","o">>

\* "intro.mdx"
ExampleEntry ==
    <<"i","n","t","r","o",".","m","d","x">>

\* "https://github.com/solidjs/solid-docs-next/issues/new?assignees=ladybluenotes&labels=improve+documentation%2Cpending+review&projects=&template=CONTENT.yml&title=[Content]:&subject=intro.mdx&page=https://docs.solidjs.com/docs/intro"
ExampleURL ==
    <<"h","t","t","p","s",":","/","/","g","i","t","h",
      "u","b",".","c","o","m","/","s","o","l","i","d",
      "j","s","/","s","o","l","i","d","-","d","o","c",
      "s","-","n","e","x","t","/","i","s","s","u","e",
      "s","/","n","e","w","?","a","s","s","i","g","n",
      "e","e","s","=","l","a","d","y","b","l","u","e",
      "n","o","t","e","s","&","l","a","b","e","l","s",
      "=","i","m","p","r","o","v","e","+","d","o","c",
      "u","m","e","n","t","a","t","i","o","n","%","2",
      "C","p","e","n","d","i","n","g","+","r","e","v",
      "i","e","w","&","p","r","o","j","e","c","t","s",
      "=","&","t","e","m","p","l","a","t","e","=","C",
      "O","N","T","E","N","T",".","y","m","l","&","t",
      "i","t","l","e","=","[","C","o","n","t","e","n",
      "t","]",":","&","s","u","b","j","e","c","t","=",
      "i","n","t","r","o",".","m","d","x","&","p","a",
      "g","e","=","h","t","t","p","s",":","/","/","d",
      "o","c","s",".","s","o","l","i","d","j","s",".",
      "c","o","m","/","d","o","c","s","/","i","n","t",
      "r","o">>

\* ------------------------------------------------------------------ state
VARIABLES
    pathname,      \* location.pathname
    entry,         \* what getEntryFileName() returns for the current page
    href,          \* the anchor's href, the last value of the srcPath memo
    stale,         \* a route change the memo has not yet been re-run for
    memoLog,       \* history: per probe, the URLs the memo computed for it
    env,           \* "server": server-rendered output; "client": in a browser
    reported,      \* what getThemeVariant() reports
    mounted,       \* the instances whose onMount callback has run
    refresh,       \* RefreshOnMount's refresh signal, per instance
    refreshCount,  \* how often the refresh signal changed, per instance
    structure,     \* which branch of Show is in the document, per instance
    shown,         \* aria-label and icon in the document, per instance
    events,        \* the change events the select delivered, in order
    calls,         \* the arguments setTheme was invoked with, in order
    users0,        \* stores page: loggedIn of store.users before the setters
    usersRange,    \* stores page: loggedIn of the users, range setter version
    rangeDone,     \* stores page: the range setter has been called
    usersLoop,     \* stores page: loggedIn of the users, loop version
    loopI,         \* stores page: the loop's variable i
    routePath,     \* path parameters page: the path the router is given
    matched,       \* path parameters page: "pending", "yes" or "no"
    cookie,        \* API routes page: what getCookie("userId") returns
    param,         \* API routes page: event.params.userId
    storeUsers,    \* API routes page: the ids of the users in the store
    lookedUp,      \* API routes page: the ids store.getUser was asked for
    getAt,         \* API routes page: where GET is: "start", "await", "done"
    user,          \* API routes page: what the promise of getUser holds
    response       \* API routes page: the handler's result (status, body)

linkVars == <<pathname, entry, href, stale, memoLog>>
themeVars == <<env, reported, mounted, refresh, refreshCount, structure,
               shown, events, calls>>
storeVars == <<users0, usersRange, rangeDone, usersLoop, loopI>>
routeVars == <<routePath, matched>>
sessionVars == <<cookie, param, storeUsers, lookedUp, getAt, user,
                 response>>
docVars == <<storeVars, routeVars, sessionVars>>
vars == <<pathname, entry, href, stale, memoLog, env, reported, mounted,
          refresh, refreshCount, structure, shown, events, calls,
          users0, usersRange, rangeDone, usersLoop, loopI, routePath,
          matched,
          cookie, param, storeUsers, lookedUp, getAt, user, response>>

\* ---------------------------------------------------- PageIssueLink: memo
\* encodeURIComponent on the characters of the alphabet that a query-string
\* value cannot hold as they are: "&" ends the parameter, "#" the query.
EscapeChar(c) ==
    IF c = "&" THEN <<"%", "2", "6">>
    ELSE IF c = "#" THEN <<"%", "2", "3">>
    ELSE <<c>>

RECURSIVE PercentEncode(_)
PercentEncode(s) ==
    IF s = <<>> THEN <<>> ELSE EscapeChar(Head(s)) \o PercentEncode(Tail(s))

\* srcPath, had it encoded its two inputs
srcPathEncoded(E, P) ==
    IssueHost \o QAssignees \o QLabels \o QProjects \o QTemplate \o QTitle
        \o SubjectKey \o PercentEncode(E) \o PageKey \o PercentEncode(P)

\* srcPath, had it put the page parameter before the subject parameter
srcPathSwapped(E, P) ==
    IssueHost \o QAssignees \o QLabels \o QProjects \o QTemplate \o QTitle
        \o PageKey \o P \o SubjectKey \o E

\* srcPath, had it also read the active theme
srcPathThemed(E, P) ==
    IssueHost \o QAssignees \o QLabels \o QProjects \o QTemplate \o QTitle
        \o SubjectKey \o E \o PageKey \o P
        \o (IF reported = "dark" THEN <<"#", "d", "a", "r", "k">> ELSE <<>>)

\* srcPath, had it refused an empty entry identifier or an empty path
srcPathValidated(E, P) ==
    IF E = <<>> \/ P = <<>> THEN <<>>
    ELSE IssueHost \o QAssignees \o QLabels \o QProjects \o QTemplate
            \o QTitle \o SubjectKey \o E \o PageKey \o P

\* srcPath, had it dropped the slash that ends a path
srcPathTrimmed(E, P) ==
    IssueHost \o QAssignees \o QLabels \o QProjects \o QTemplate \o QTitle
        \o SubjectKey \o E \o PageKey
        \o (IF P # <<>> /\ P[Len(P)] = "/" THEN SubSeq(P, 1, Len(P) - 1)
            ELSE P)

\* srcPath, had the "&" before "page=" been left out
srcPathNoSeparator(E, P) ==
    IssueHost \o QAssignees \o QLabels \o QProjects \o QTemplate \o QTitle
        \o SubjectKey \o E \o Tail(PageKey) \o P

\* srcPath memo (page-issue-link.tsx:12-23): the template literals insert
\* the entry identifier E and the path P without any encoding.
srcPath(E, P) ==
    IssueHost \o QAssignees \o QLabels \o QProjects \o QTemplate \o QTitle
        \o SubjectKey \o E \o PageKey \o P

\* location.pathname always begins with "/" and holds no "#"; besides the
\* example and the generated paths, one that holds "="
Paths ==
    {ExamplePath} \cup {<<"/">> \o s : s \in Strs(MaxPathLen)}
        \cup {<<"/", "a", "=", "b">>}

\* what getEntryFileName() may return; besides the example and the
\* generated identifiers, one that holds "=" and one that holds "#"
Entries ==
    {ExampleEntry} \cup Strs(MaxEntryLen)
        \cup {<<"a", "=", "b">>, <<"a", "#", "b">>}

\* The pages visited when both components run side by side.
PagePaths == {ExamplePath, <<"/", "&">>}
PageEntries == {ExampleEntry, <<"&">>}

\* The inputs of the memo whose evaluations are kept in memoLog.
Probes == {<<ExampleEntry, ExamplePath>>, <<<<"&">>, <<"/", "&">>>>}

\* ------------------------------------------------ ThemeSelector: constants
\* THEME_OPTIONS, had the system option been left out
THEME_OPTIONS_NoSystem ==
    << [value |-> "light",  label |-> "Light",  icon |-> "sun"],
       [value |-> "dark",   label |-> "Dark",   icon |-> "moon"] >>

\* THEME_OPTIONS, had the system option been given the value of the dark one
THEME_OPTIONS_DarkTwice ==
    << [value |-> "light",  label |-> "Light",  icon |-> "sun"],
       [value |-> "dark",   label |-> "Dark",   icon |-> "moon"],
       [value |-> "dark",   label |-> "System", icon |-> "computerDesktop"] >>

\* THEME_OPTIONS (page-issue-link.tsx:64-80); an icon is named by its import.
THEME_OPTIONS ==
    << [value |-> "light",  label |-> "Light",  icon |-> "sun"],
       [value |-> "dark",   label |-> "Dark",   icon |-> "moon"],
       [value |-> "system", label |-> "System", icon |-> "computerDesktop"] >>

\* ThemeOption["value"]: ThemeType | "system" (page-issue-link.tsx:59)
ThemeValues == {"light", "dark", "system"}

\* JavaScript's undefined, as a setter argument
Undefined == "undefined"

\* "no option": the result of a find that matches nothing, and the argument
\* of a change event that carries no option
NoOption == [value |-> Undefined, label |-> Undefined, icon |-> Undefined]

\* the options of the select (options={THEME_OPTIONS})
Options == {THEME_OPTIONS[k] : k \in 1..Len(THEME_OPTIONS)}

\* Array.prototype.find on the option's value: the first match, or none
Find(arr, v) ==
    LET idx == {k \in 1..Len(arr) : arr[k].value = v}
    IN  IF idx = {} THEN NoOption
        ELSE arr[CHOOSE k \in idx : \A m \in idx : k <= m]

\* selectedTheme (page-issue-link.tsx:83-84), v being getThemeVariant()
selectedTheme(v) == Find(THEME_OPTIONS, v)

\* Values that are not the value of an option, as arguments of the lookup
\* of selectedTheme: undefined, the empty string, a label, a capitalised
\* value and an unknown name.
OtherValues == {Undefined, "", "Light", "Dark", "auto"}

\* option?.value (page-issue-link.tsx:93)
OptionValue(o) == IF o = NoOption THEN Undefined ELSE o.value

\* Select.Value, had the icon been taken from the first option and not from
\* the selected one
DisplayIconOfFirst(v) ==
    LET o == selectedTheme(v)
    IN  [label |-> o.label, icon |-> THEME_OPTIONS[1].icon]

\* What Select.Value shows for the select's value: the aria-label and the
\* icon of state.selectedOption() (page-issue-link.tsx:120-128).
Display(v) ==
    LET o == selectedTheme(v)
    IN  [label |-> o.label, icon |-> o.icon]

\* The two ThemeSelector instances of a page (header and mobile menu).
Instances == {"header", "menu"}

\* =============================================== examples of the pages
\* --------------------------------------- stores page: range with a step
\* from, by and the loop's first i and step, as the page writes them
RangeFrom == 0
RangeBy == 2
LoopFrom == 1
LoopBy == 2

\* The indices a range object selects: from, from + by, ... up to to, both
\* ends inclusive (stores page).
RangeIndices(from, to, by) == {i \in from..to : (i - from) % by = 0}

\* setStore("users", i, "loggedIn", v); users[k] is the loggedIn of index k-1
SetUser(users, i, v) ==
    [k \in 1..Len(users) |-> IF k - 1 = i THEN v ELSE users[k]]

\* setStore("users", { from, to, by }, "loggedIn", v)
SetRange(users, from, to, by, v) ==
    [k \in 1..Len(users) |->
        IF k - 1 \in RangeIndices(from, to, by) THEN v ELSE users[k]]

\* the stores page's example before either version has run
InitStoreAt(u) ==
    /\ users0 = u
    /\ usersRange = u
    /\ rangeDone = FALSE
    /\ usersLoop = u
    /\ loopI = LoopFrom

InitStore ==
    \E n \in 0..MaxUsers : \E u \in [1..n -> BOOLEAN] : InitStoreAt(u)

\* setStore("users", { from: 0, to: store.users.length - 1, by: 2 },
\*          "loggedIn", false)
RangeSetter ==
    /\ ~rangeDone
    /\ usersRange' =
         SetRange(usersRange, RangeFrom, Len(usersRange) - 1, RangeBy, FALSE)
    /\ rangeDone' = TRUE
    /\ UNCHANGED <<users0, usersLoop, loopI>>
    /\ UNCHANGED <<routeVars, sessionVars, linkVars, themeVars>>

\* one round of: for (let i = 1; i <= store.users.length - 1; i += 2)
\*                 setStore("users", i, "loggedIn", false)
LoopStep ==
    /\ loopI <= Len(usersLoop) - 1
    /\ usersLoop' = SetUser(usersLoop, loopI, FALSE)
    /\ loopI' = loopI + LoopBy
    /\ UNCHANGED <<users0, usersRange, rangeDone>>
    /\ UNCHANGED <<routeVars, sessionVars, linkVars, themeVars>>

\* the loop has ended
LoopDone == loopI > Len(usersLoop) - 1

\* ------------------------------- path parameters page: matchFilters
Digits == {"0", "1", "2", "3", "4", "5", "6", "7", "8", "9"}

\* parent: ["mom", "dad"], had "dad" been left out
FilterParentMomOnly(v) == v \in {<<"m", "o", "m">>}

\* parent: ["mom", "dad"]
FilterParent(v) == v \in {<<"m", "o", "m">>, <<"d", "a", "d">>}

\* id: /^\d+$/
FilterId(v) == v # <<>> /\ \A k \in 1..Len(v) : v[k] \in Digits

\* withHtmlExtension: (v) => v.length > 5 && v.endsWith(".html")
FilterHtml(v) == Len(v) > 5 /\ EndsWith(v, <<".", "h", "t", "m", "l">>)

\* The route /users/:parent/:id/:withHtmlExtension with its matchFilters:
\* the path has these four segments and each filter accepts its parameter.
RouteMatches(u) ==
    LET segs == Split(u, "/")
    IN  /\ Len(segs) = 5
        /\ segs[1] = <<>>
        /\ segs[2] = <<"u", "s", "e", "r", "s">>
        /\ FilterParent(segs[3])
        /\ FilterId(segs[4])
        /\ FilterHtml(segs[5])

\* the segments tried for each parameter: those of the page, and others
RouteParents == {<<"m", "o", "m">>, <<"d", "a", "d">>, <<"a", "u", "n", "t">>, <<"m", "o">>}
RouteIds == {<<"1", "2", "3">>, <<"4", "5", "6">>, <<"m", "e">>, <<"1", "2", "a">>, <<"7">>}
RouteFiles ==
    {<<"c", "o", "n", "t", "a", "c", "t", ".", "h", "t", "m", "l">>,
     <<"a", "b", "o", "u", "t", ".", "h", "t", "m", "l">>,
     <<"c", "o", "n", "t", "a", "c", "t">>,
     <<".", "h", "t", "m", "l">>,
     <<"a", ".", "h", "t", "m", "l">>,
     <<"c", "o", "n", "t", "a", "c", "t", ".", "h", "t", "m">>}

RouteURL(p, i, w) ==
    <<"/", "u", "s", "e", "r", "s", "/">> \o p \o <<"/">> \o i \o <<"/">> \o w

RouteURLs ==
    {RouteURL(p, i, w) : p \in RouteParents, i \in RouteIds, w \in RouteFiles}

InitRouteAt(u) ==
    /\ routePath = u
    /\ matched = "pending"

InitRoute == \E u \in RouteURLs : InitRouteAt(u)

\* the router matches the path against the route
MatchRoute ==
    /\ matched = "pending"
    /\ matched' = IF RouteMatches(routePath) THEN "yes" ELSE "no"
    /\ UNCHANGED routePath
    /\ UNCHANGED <<storeVars, sessionVars, linkVars, themeVars>>

\* ------------------------------------ API routes page: session example
UserIds == {"u1", "u2", "u3"}

\* getCookie("userId"): a user id, the empty string, or undefined
CookieValues == UserIds \cup {"", Undefined}

\* no response yet
NoResponse == [status |-> 0, body |-> "pending"]

\* the promise of store.getUser before the store has answered
Unsettled == "unsettled"

\* What the store answers for id when it holds the users st: the user of
\* that id (named by its id), or undefined.
StoreRead(id, st) == IF id \in st THEN id ELSE Undefined

InitSessionAt(c, p, st) ==
    /\ cookie = c
    /\ param = p
    /\ storeUsers = st
    /\ lookedUp = {}
    /\ getAt = "start"
    /\ user = Unsettled
    /\ response = NoResponse

InitSession ==
    \E c \in CookieValues, p \in UserIds, st \in SUBSET UserIds :
        InitSessionAt(c, p, st)

\* GET(event) up to its await: 401 without a userId cookie; else
\* store.getUser(event.params.userId) is called and the handler waits for
\* the answer, other callbacks of the event loop running meanwhile. The
\* store is free to read its users in the call itself or in a later task.
GET ==
    /\ getAt = "start"
    /\ IF cookie \in {"", Undefined}
       THEN /\ response' = [status |-> 401, body |-> "Not logged in"]
            /\ getAt' = "done"
            /\ lookedUp' = {}
            /\ user' = Unsettled
       ELSE /\ lookedUp' = {param}
            /\ getAt' = "await"
            /\ user' \in {Unsettled, StoreRead(param, storeUsers)}
            /\ response' = NoResponse
    /\ UNCHANGED <<cookie, param, storeUsers>>
    /\ UNCHANGED <<storeVars, routeVars, linkVars, themeVars>>

\* The store reads its users in a task of its own and settles the promise
\* of getUser with what it holds then.
StoreAnswer ==
    /\ getAt = "await"
    /\ user = Unsettled
    /\ user' = StoreRead(param, storeUsers)
    /\ UNCHANGED <<cookie, param, storeUsers, lookedUp, getAt, response>>
    /\ UNCHANGED <<storeVars, routeVars, linkVars, themeVars>>

\* GET after its await, in a microtask after the promise was settled: user
\* is the value the promise holds, whatever the store holds by now. 403
\* when user.id is not the cookie's userId, the user otherwise; for an id
\* the store did not hold, user is undefined, user.id throws and the
\* request fails.
GETResume ==
    /\ getAt = "await"
    /\ user # Unsettled
    /\ getAt' = "done"
    /\ response' =
         IF user = Undefined
         THEN [status |-> 500, body |-> "TypeError"]
         ELSE IF user # cookie
         THEN [status |-> 403, body |-> "Not authorized"]
         ELSE [status |-> 200, body |-> user]
    /\ UNCHANGED <<cookie, param, storeUsers, lookedUp, user>>
    /\ UNCHANGED <<storeVars, routeVars, linkVars, themeVars>>

\* Another callback of the event loop adds a user to the store or removes
\* one, before, while or after GET waits.
StoreChange(u) ==
    /\ storeUsers' = IF u \in storeUsers THEN storeUsers \ {u}
                     ELSE storeUsers \cup {u}
    /\ UNCHANGED <<cookie, param, lookedUp, getAt, user, response>>
    /\ UNCHANGED <<storeVars, routeVars, linkVars, themeVars>>

\* the examples of the pages, none of them started
InitDocsIdle ==
    /\ InitStoreAt(<<>>)
    /\ InitRouteAt(RouteURL(<<"m", "o", "m">>, <<"7">>, <<"a", ".", "h", "t", "m", "l">>))
    /\ InitSessionAt(Undefined, "u1", {})

\* ------------------------------------------------------------------- Init
\* No evaluation of the memo yet.
EmptyLog == [w \in Probes |-> [urls |-> {}, n |-> "never"]]

\* The memo computed url for (E, P): kept when (E, P) is a probe.
LogEval(log, E, P, url) ==
    IF <<E, P>> \in Probes
    THEN [log EXCEPT ![<<E, P>>] =
            [urls |-> @.urls \cup {url},
             n |-> IF @.n = "never" THEN "once" ELSE "again"]]
    ELSE log

\* PageIssueLink after construction: the memo has run once for the route.
InitLinkAt(P, E) ==
    /\ pathname = P
    /\ entry = E
    /\ href = srcPath(E, P)
    /\ stale = FALSE
    /\ memoLog = LogEval(EmptyLog, E, P, srcPath(E, P))

InitLink == \E P \in Paths, E \in Entries : InitLinkAt(P, E)

\* The first render, had the refresh signal been created true
InitThemeAtRefreshed(e, v) ==
    /\ env = e
    /\ reported = v
    /\ mounted = {}
    /\ refresh = [i \in Instances |-> TRUE]
    /\ refreshCount = [i \in Instances |-> 0]
    /\ structure = [i \in Instances |-> "main"]
    /\ shown = [i \in Instances |-> Display(v)]
    /\ events = <<>>
    /\ calls = <<>>

\* ThemeSelector after its first render, on the server or in the browser:
\* the refresh signal is false (createSignal(false)), Show renders its
\* fallback, and the label and icon are those of the reported theme.
InitThemeAt(e, v) ==
    /\ env = e
    /\ reported = v
    /\ mounted = {}
    /\ refresh = [i \in Instances |-> FALSE]
    /\ refreshCount = [i \in Instances |-> 0]
    /\ structure = [i \in Instances |-> "fallback"]
    /\ shown = [i \in Instances |-> Display(v)]
    /\ events = <<>>
    /\ calls = <<>>

InitTheme ==
    \E e \in {"server", "client"}, v \in ThemeValues : InitThemeAt(e, v)

\* both components side by side, on one of a few pages
Init ==
    /\ InitTheme
    /\ \E P \in PagePaths, E \in PageEntries : InitLinkAt(P, E)
    /\ InitDocsIdle

\* ---------------------------------------------------------- PageIssueLink
\* The router moves to another page: location.pathname and the entry
\* identifier change, and the memo is marked for re-evaluation.
Navigate(P, E) ==
    /\ P # pathname
    /\ pathname' = P
    /\ entry' = E
    /\ stale' = TRUE
    /\ UNCHANGED <<href, memoLog>>
    /\ UNCHANGED themeVars
    /\ UNCHANGED docVars

\* The update, had the URL been built once and not inside a memo
RecomputeOnce ==
    /\ stale
    /\ stale' = FALSE
    /\ UNCHANGED <<href, memoLog>>
    /\ UNCHANGED <<pathname, entry>>
    /\ UNCHANGED themeVars
    /\ UNCHANGED docVars

\* The reactive update: the srcPath memo re-runs and the anchor's href is
\* set to its value (page-issue-link.tsx:12-23, 28).
Recompute ==
    /\ stale
    /\ href' = srcPath(entry, pathname)
    /\ stale' = FALSE
    /\ memoLog' = LogEval(memoLog, entry, pathname, href')
    /\ UNCHANGED <<pathname, entry>>
    /\ UNCHANGED themeVars
    /\ UNCHANGED docVars

\* ---------------------------------------------------------- ThemeSelector
\* The browser takes over the server-rendered page: the helper now reports
\* the client's value; the server's markup stays in the document and every
\* instance starts with a fresh refresh signal (false).
Hydrate ==
    /\ env = "server"
    /\ env' = "client"
    /\ reported' \in ThemeValues
    /\ UNCHANGED <<mounted, refresh, refreshCount, structure, shown,
                   events, calls>>
    /\ UNCHANGED linkVars
    /\ UNCHANGED docVars

\* setRefresh(v): a signal write with an equal value notifies nobody.
SetRefresh(i, v) ==
    /\ refresh' = [refresh EXCEPT ![i] = v]
    /\ refreshCount' =
         [refreshCount EXCEPT ![i] = IF refresh[i] = v THEN @ ELSE @ + 1]

\* onMount, had Show kept the nodes it rendered before the mount
MountNoRender(i) ==
    /\ env = "client"
    /\ i \notin mounted
    /\ mounted' = mounted \cup {i}
    /\ SetRefresh(i, TRUE)
    /\ structure' = [structure EXCEPT ![i] = "main"]
    /\ UNCHANGED <<env, reported, shown, events, calls>>
    /\ UNCHANGED linkVars
    /\ UNCHANGED docVars

\* onMount, had the callback forgotten to set the refresh signal
MountForgetful(i) ==
    /\ env = "client"
    /\ i \notin mounted
    /\ mounted' = mounted \cup {i}
    /\ UNCHANGED <<refresh, refreshCount, structure, shown>>
    /\ UNCHANGED <<env, reported, events, calls>>
    /\ UNCHANGED linkVars
    /\ UNCHANGED docVars

\* onMount, had the callback also written the reported theme back
MountWritesTheme(i) ==
    /\ env = "client"
    /\ i \notin mounted
    /\ mounted' = mounted \cup {i}
    /\ SetRefresh(i, TRUE)
    /\ structure' = [structure EXCEPT ![i] = "main"]
    /\ shown' = [shown EXCEPT ![i] = Display(reported)]
    /\ calls' = Append(calls, reported)
    /\ UNCHANGED <<env, reported, events>>
    /\ UNCHANGED linkVars
    /\ UNCHANGED docVars

\* onMount, had the refresh signal been one signal shared by the instances
MountSharedFlag(i) ==
    /\ env = "client"
    /\ i \notin mounted
    /\ mounted' = mounted \cup {i}
    /\ refresh' = [j \in Instances |-> TRUE]
    /\ refreshCount' =
         [j \in Instances |-> IF refresh[j] THEN refreshCount[j]
                              ELSE refreshCount[j] + 1]
    /\ structure' = [j \in Instances |-> "main"]
    /\ shown' = [j \in Instances |-> Display(reported)]
    /\ UNCHANGED <<env, reported, events, calls>>
    /\ UNCHANGED linkVars
    /\ UNCHANGED docVars

\* onMount of RefreshOnMount (page-issue-link.tsx:143-145) and the update
\* it causes: Show leaves its fallback and renders its children anew, with
\* the label and icon of the currently selected option (147-158).
Mount(i) ==
    /\ env = "client"
    /\ i \notin mounted
    /\ mounted' = mounted \cup {i}
    /\ SetRefresh(i, TRUE)
    /\ structure' = [structure EXCEPT ![i] = "main"]
    /\ shown' = [shown EXCEPT ![i] = Display(reported)]
    /\ UNCHANGED <<env, reported, events, calls>>
    /\ UNCHANGED linkVars
    /\ UNCHANGED docVars

\* The theming helper after setTheme(v): it reports v; what it reports
\* after setTheme(undefined) is not defined by its type, which only promises
\* one of the three theme values.
HelperSet(v) ==
    reported' \in (IF v \in ThemeValues THEN {v} ELSE ThemeValues)

\* onChange, had it invoked the setter a second time
ChangeEventTwice(i, o) ==
    /\ i \in mounted
    /\ events' = Append(events, [inst |-> i, option |-> o])
    /\ calls' = calls \o <<OptionValue(o), OptionValue(o)>>
    /\ HelperSet(OptionValue(o))
    /\ shown' = [j \in Instances |-> Display(reported')]
    /\ UNCHANGED <<env, mounted, refresh, refreshCount, structure>>
    /\ UNCHANGED linkVars
    /\ UNCHANGED docVars

\* onChange, had a change of the selection created RefreshOnMount anew
ChangeEventRemount(i, o) ==
    /\ i \in mounted
    /\ events' = Append(events, [inst |-> i, option |-> o])
    /\ calls' = Append(calls, OptionValue(o))
    /\ HelperSet(OptionValue(o))
    /\ shown' = [j \in Instances |-> Display(reported')]
    /\ refresh' = [j \in Instances |-> FALSE]
    /\ structure' = [j \in Instances |-> "fallback"]
    /\ UNCHANGED <<env, mounted, refreshCount>>
    /\ UNCHANGED linkVars
    /\ UNCHANGED docVars

\* onChange, had it passed the value of the select instead of the event's
ChangeEventStale(i, o) ==
    /\ i \in mounted
    /\ events' = Append(events, [inst |-> i, option |-> o])
    /\ calls' = Append(calls, OptionValue(selectedTheme(reported)))
    /\ HelperSet(OptionValue(selectedTheme(reported)))
    /\ shown' = [j \in Instances |-> Display(reported')]
    /\ UNCHANGED <<env, mounted, refresh, refreshCount, structure>>
    /\ UNCHANGED linkVars
    /\ UNCHANGED docVars

\* onChange, had the select been given its value once and not reactively
ChangeEventFrozen(i, o) ==
    /\ i \in mounted
    /\ events' = Append(events, [inst |-> i, option |-> o])
    /\ calls' = Append(calls, OptionValue(o))
    /\ HelperSet(OptionValue(o))
    /\ UNCHANGED <<env, mounted, refresh, refreshCount, structure, shown>>
    /\ UNCHANGED linkVars
    /\ UNCHANGED docVars

\* onChange, had the select not been told to allow duplicate selection
\* events: a selection of the value it already has reaches no handler
ChangeEventNoDuplicates(i, o) ==
    /\ i \in mounted
    /\ events' = Append(events, [inst |-> i, option |-> o])
    /\ IF o \in Options /\ o.value = reported
       THEN UNCHANGED <<calls, reported, shown>>
       ELSE /\ calls' = Append(calls, OptionValue(o))
            /\ HelperSet(OptionValue(o))
            /\ shown' = [j \in Instances |-> Display(reported')]
    /\ UNCHANGED <<env, mounted, refresh, refreshCount, structure>>
    /\ UNCHANGED linkVars
    /\ UNCHANGED docVars

\* onChange of the select in instance i (page-issue-link.tsx:92-94), with
\* the option of the event (none when the selection was cleared), and the
\* reactive update of every instance's label and icon.
ChangeEvent(i, o) ==
    /\ i \in mounted
    /\ events' = Append(events, [inst |-> i, option |-> o])
    /\ calls' = Append(calls, OptionValue(o))
    /\ HelperSet(OptionValue(o))
    /\ shown' = [j \in Instances |-> Display(reported')]
    /\ UNCHANGED <<env, mounted, refresh, refreshCount, structure>>
    /\ UNCHANGED linkVars
    /\ UNCHANGED docVars

\* ----------------------------------------------------------- behaviours
NextLink ==
    \/ \E P \in Paths, E \in Entries : Navigate(P, E)
    \/ Recompute

NextTheme ==
    \/ Hydrate
    \/ \E i \in Instances : Mount(i)
    \/ \E i \in Instances, o \in Options \cup {NoOption} :
         Len(calls) < MaxCalls /\ ChangeEvent(i, o)

\* both components side by side, on a few pages
Next ==
    \/ \E P \in PagePaths, E \in PageEntries : Navigate(P, E)
    \/ Recompute
    \/ Hydrate
    \/ \E i \in Instances : Mount(i)
    \/ \E i \in Instances, o \in Options \cup {NoOption} :
         Len(calls) < PageMaxCalls /\ ChangeEvent(i, o)

Spec == Init /\ [][Next]_vars

\* the issue link alone, over all generated inputs, beside an idle selector
InitLinkAlone ==
    InitThemeAt("client", "system") /\ InitLink /\ InitDocsIdle

SpecLink == InitLinkAlone /\ [][NextLink]_vars

\* the theme selector alone, on the example page
InitThemeAlone ==
    InitTheme /\ InitLinkAt(ExamplePath, ExampleEntry) /\ InitDocsIdle

SpecTheme == InitThemeAlone /\ [][NextTheme]_vars

\* the theme selector alone, the browser running every pending onMount
\* callback (it runs them in the task of the render that queued them)
SpecThemeFair ==
    /\ InitThemeAlone
    /\ [][NextTheme]_vars
    /\ \A i \in Instances : WF_vars(Mount(i))

\* the two components as they are when only an example of a page runs
InitAppIdle ==
    InitThemeAt("client", "system") /\ InitLinkAt(ExamplePath, ExampleEntry)

\* stores page: the range setter and the loop, each on its own copy
InitStoreAlone ==
    /\ InitAppIdle
    /\ InitStore
    /\ InitRouteAt(RouteURL(<<"m", "o", "m">>, <<"7">>, <<"a", ".", "h", "t", "m", "l">>))
    /\ InitSessionAt(Undefined, "u1", {})

NextStore == RangeSetter \/ LoopStep

SpecStore == InitStoreAlone /\ [][NextStore]_vars

\* path parameters page: one path matched against the route
InitRouteAlone ==
    /\ InitAppIdle
    /\ InitStoreAt(<<>>)
    /\ InitRoute
    /\ InitSessionAt(Undefined, "u1", {})

NextRoute == MatchRoute

SpecRoute == InitRouteAlone /\ [][NextRoute]_vars

\* API routes page: one request to the GET handler
InitSessionAlone ==
    /\ InitAppIdle
    /\ InitStoreAt(<<>>)
    /\ InitRouteAt(RouteURL(<<"m", "o", "m">>, <<"7">>, <<"a", ".", "h", "t", "m", "l">>))
    /\ InitSession

NextSession ==
    \/ GET
    \/ StoreAnswer
    \/ GETResume
    \/ \E u \in UserIds : StoreChange(u)

SpecSession == InitSessionAlone /\ [][NextSession]_vars

\* ================================================================= claims
\* ---------------------------------------------------------------- C1
\* C1, as stated: the generated URL points at the fixed issue-tracker host
\* and contains the path P and the entry identifier E, with the characters
\* that require it percent-encoded.
C1_ContainsEncodedInputs ==
    ~stale =>
        /\ StartsWith(href, IssueHost)
        /\ Contains(href, PercentEncode(pathname))
        /\ Contains(href, PercentEncode(entry))

\* C1, amended: the generated URL points at the fixed issue-tracker host and
\* contains P and E verbatim, character for character as they were given:
\* nothing is percent-encoded, not even a "&".
C1_ContainsInputsVerbatim ==
    ~stale =>
        /\ StartsWith(href, IssueHost)
        /\ Contains(href, pathname)
        /\ Contains(href, entry)

\* the URL has been built for a path and an entry identifier holding "&"
C1_Witness ==
    /\ ~stale
    /\ Contains(pathname, <<"&">>)
    /\ Contains(entry, <<"&">>)
    /\ Contains(href, SubjectKey \o entry \o PageKey \o pathname)

\* ---------------------------------------------------------------- C2
\* C2: every change event of the select invokes the theme setter exactly
\* once (the k-th call belongs to the k-th event), and a selection of one of
\* the three options passes that option's value and no other.
C2_SelectionCallsSetterOnce ==
    /\ Len(calls) = Len(events)
    /\ \A k \in 1..Len(events) :
         \A v \in {"light", "dark", "system"} :
            events[k].option.value = v => calls[k] = v

\* each of the three options has been selected once
C2_Witness ==
    /\ Len(events) = 3
    /\ {events[k].option.value : k \in 1..3} = {"light", "dark", "system"}
    /\ calls = [k \in 1..3 |-> events[k].option.value]

\* ---------------------------------------------------------------- C3
\* C3: once an instance has mounted, the icon it displays is the icon of the
\* option whose value the theming helper reports, and its refresh signal
\* has changed exactly once.
C3_MountedShowsReported ==
    \A i \in mounted :
        /\ refreshCount[i] = 1
        /\ \A k \in 1..Len(THEME_OPTIONS) :
             THEME_OPTIONS[k].value = reported =>
                shown[i].icon = THEME_OPTIONS[k].icon

\* one instance has mounted and shows another icon than the instance that
\* still shows the markup of the first render
C3_Witness ==
    \E i \in mounted, j \in Instances \ mounted :
        /\ shown[i].icon # shown[j].icon
        /\ shown[i] = Display(reported)

\* ---------------------------------------------------------------- C4
\* C4: before an instance has mounted (on the server too) its output does
\* not depend on the refresh signal, which only the client sets: the signal
\* is false and the fallback branch is rendered, and the label rendered is
\* one of Light, Dark, System, whatever the helper reports; the output of
\* the first render is that of the value reported then.
C4_FirstRenderShowsAnOption ==
    /\ \A i \in Instances \ mounted :
         /\ ~refresh[i]
         /\ structure[i] = "fallback"
         /\ shown[i].label \in {"Light", "Dark", "System"}
    /\ (env = "server" \/ (mounted = {} /\ events = <<>>)) =>
         \E v \in ThemeValues :
            \A i \in Instances : shown[i] = Display(v)

\* the server's first render, the helper reporting the system theme
C4_Witness ==
    /\ env = "server"
    /\ reported = "system"
    /\ \A i \in Instances : shown[i].label = "System" /\ ~refresh[i]

\* ---------------------------------------------------------------- C5
\* C5: the URL is the fixed template followed by "&subject=" E
\* "&page=https://docs.solidjs.com" P; for /docs/intro and intro.mdx it is
\* the template with subject=intro.mdx&page=https://docs.solidjs.com/docs/intro.
C5_ExampleURL ==
    ~stale =>
        LET tail == SubjectKey \o ExampleEntry \o PageKey \o ExamplePath
            prefix == SubSeq(ExampleURL, 1, Len(ExampleURL) - Len(tail))
        IN  /\ (pathname = ExamplePath /\ entry = ExampleEntry) =>
                 href = ExampleURL
            /\ href = prefix \o SubjectKey \o entry \o PageKey \o pathname

\* the URL has been built for /docs/intro and intro.mdx
C5_Witness ==
    /\ ~stale
    /\ pathname = ExamplePath
    /\ entry = ExampleEntry
    /\ href = ExampleURL

\* ---------------------------------------------------------------- C6
\* C6: every value passed to the theme setter is one of light, dark, system.
C6_SetterGetsThemeValues ==
    \A k \in 1..Len(calls) : calls[k] \in {"light", "dark", "system"}

\* ---------------------------------------------------------------- C7
\* C7: once an instance's refresh signal is true it stays true, the main
\* branch of Show stays in the document, and the signal changes no more.
C7_RefreshStaysTrue ==
    [][\A i \in Instances :
          refresh[i] =>
             /\ refresh'[i]
             /\ structure[i] = "main"
             /\ structure'[i] = "main"
             /\ refreshCount'[i] = refreshCount[i]
             /\ refreshCount[i] = 1]_vars

\* both instances have refreshed, and selections have followed
C7_Witness ==
    /\ \A i \in Instances : refresh[i] /\ structure[i] = "main"
    /\ Len(events) = MaxCalls
    /\ \E k \in 1..Len(events) : calls[k] # reported

\* ---------------------------------------------------------------- C8
\* C8: an instance that has not mounted shows the fallback with its refresh
\* signal false and unchanged; the signal has changed only for mounted
\* instances; and on the server no instance ever mounts.
C8_RefreshOnlyAfterMount ==
    /\ \A i \in Instances :
         i \notin mounted =>
            /\ ~refresh[i]
            /\ structure[i] = "fallback"
            /\ refreshCount[i] = 0
    /\ \A i \in Instances : refreshCount[i] > 0 => i \in mounted
    /\ env = "server" => mounted = {}

\* in the browser, one instance has mounted and refreshed, the other not yet
C8_Witness ==
    /\ env = "client"
    /\ \E i \in mounted : refresh[i] /\ structure[i] = "main"
    /\ \E j \in Instances \ mounted : ~refresh[j]

\* ---------------------------------------------------------------- C9
\* C9: once the reactive update has run after a route change, the anchor's
\* href is the URL of the current path and the current entry identifier.
C9_HrefFollowsRoute ==
    ~stale => href = srcPath(entry, pathname)

\* the route has left a page whose URL had been built, and the update has run
C9_Witness ==
    /\ ~stale
    /\ \E w \in Probes :
         /\ memoLog[w].n # "never"
         /\ w[2] # pathname
         /\ ~Contains(href, w[2])

\* ---------------------------------------------------------------- C10
\* C10: all evaluations of the memo for one pair (entry identifier, path)
\* gave one and the same URL, whatever routes and theme changes came in
\* between; and the step that builds the URL changes nothing but the href
\* (and the record of evaluations).
C10_PureURL ==
    /\ [](\A w \in Probes : Cardinality(memoLog[w].urls) <= 1)
    /\ [][(stale /\ ~stale') =>
             UNCHANGED <<pathname, entry, env, reported, mounted, refresh,
                         refreshCount, structure, shown, events, calls>>]_vars

\* the memo has been evaluated twice for one pair, the theme set meanwhile
C10_Witness ==
    /\ \E w \in Probes : memoLog[w].n = "again"
    /\ calls # <<>>
    /\ reported = "dark"

\* ---------------------------------------------------------------- C11
\* C11: the link builder has no error outcome: for every path and every
\* entry identifier, the empty ones included, the result is a URL string,
\* that of the issue tracker, as long as the fixed part and the two inputs.
C11_AlwaysAURL ==
    LET fixed == IssueHost \o QAssignees \o QLabels \o QProjects
                    \o QTemplate \o QTitle \o SubjectKey \o PageKey
    IN  /\ ~stale =>
             /\ href # <<>>
             /\ StartsWith(href, IssueHost)
             /\ Len(href) = Len(fixed) + Len(entry) + Len(pathname)
        /\ StartsWith(srcPath(<<>>, <<>>), IssueHost)
        /\ Len(srcPath(<<>>, <<>>)) = Len(fixed)

\* the URL has been built for an empty entry identifier
C11_Witness ==
    /\ ~stale
    /\ entry = <<>>
    /\ EndsWith(href, SubjectKey \o PageKey \o pathname)

\* ---------------------------------------------------------------- C12
\* C12: the path is taken as it is: its characters, the special ones
\* included, are the last characters of the URL, unchanged and in order,
\* right after "&page=https://docs.solidjs.com".
C12_PathIsSuffix ==
    ~stale => EndsWith(href, PageKey \o pathname)

\* the URL has been built for a path that holds "&" and for the path "/"
C12_Witness ==
    /\ ~stale
    /\ pathname = <<"/", "&">>
    /\ EndsWith(href, <<"m", "/", "&">>)

\* ---------------------------------------------------------------- C13
\* C13: the writes to the theme store are the selections, one write for
\* each, in the order of the selections, whatever mounts came in between;
\* and after a selection the store holds that selection's value.
C13_WritesInSelectionOrder ==
    /\ Len(calls) = Len(events)
    /\ \A k \in 1..Len(events) :
         events[k].option \in Options => calls[k] = events[k].option.value
    /\ (events # <<>> /\ events[Len(events)].option \in Options) =>
         reported = events[Len(events)].option.value

\* selections in both instances, the second mount between two of them,
\* and the store holding the last one
C13_Witness ==
    /\ Len(events) = 3
    /\ \A k \in 1..3 : events[k].option \in Options
    /\ events[1].inst # events[3].inst
    /\ events[1].option # events[3].option
    /\ reported = events[3].option.value
    /\ mounted = Instances

\* ---------------------------------------------------------------- C14
\* C14: after the selection of option X, the helper reporting X, every
\* instance shows X (its label and its icon) as the selected option,
\* whatever was selected before.
C14_ShownIsSelected ==
    events # <<>> =>
        LET o == events[Len(events)].option
        IN  (o \in Options /\ reported = o.value) =>
               \A i \in Instances :
                  shown[i] = [label |-> o.label, icon |-> o.icon]

\* dark, then light, then system selected; System is shown
C14_Witness ==
    /\ Len(events) = 3
    /\ events[1].option.value = "dark"
    /\ events[2].option.value = "light"
    /\ events[3].option.value = "system"
    /\ \A i \in Instances : shown[i].label = "System"

\* ---------------------------------------------------------------- C15
\* C15: the first render shows a label in the fallback without waiting for
\* the mount, and in the browser every instance's refresh signal eventually
\* becomes true, its onMount callback being run.
C15_PhaseTwoReached ==
    /\ \A i \in Instances :
         /\ structure[i] = "fallback"
         /\ shown[i].label \in {"Light", "Dark", "System"}
    /\ \A i \in Instances : (env = "client") ~> refresh[i]

\* every instance has reached its second phase, after one selection
C15_Witness ==
    /\ env = "client"
    /\ \A i \in Instances : refresh[i] /\ structure[i] = "main"
    /\ Len(events) = 1

\* ---------------------------------------------------------------- C20
\* C20: a mount changes neither the calls of the theme setter, nor what the
\* helper reports, nor what a mounted instance shows; and the setter is
\* called only in a step that is a change event, which mounts nothing.
C20_MountLeavesThemeAlone ==
    [][/\ (mounted' # mounted) =>
             /\ calls' = calls
             /\ events' = events
             /\ reported' = reported
             /\ \A j \in mounted : shown'[j] = shown[j]
       /\ (calls' # calls) =>
             /\ Len(events') = Len(events) + 1
             /\ mounted' = mounted
             /\ refresh' = refresh]_vars

\* both instances have mounted and refreshed, the setter never called
C20_Witness ==
    /\ mounted = Instances
    /\ \A i \in Instances : refreshCount[i] = 1
    /\ calls = <<>>
    /\ events = <<>>

\* ---------------------------------------------------------------- C19
\* the query string of a URL: what follows the first "?", up to a "#"
QueryString(url) ==
    LET q == IndexOf(url, "?")
        rest == IF q = 0 THEN <<>> ELSE SubSeq(url, q + 1, Len(url))
        h == IndexOf(rest, "#")
    IN  IF h = 0 THEN rest ELSE SubSeq(rest, 1, h - 1)

\* a parameter "key=value", cut at its first "="
KeyValue(p) ==
    LET k == IndexOf(p, "=")
    IN  IF k = 0 THEN <<p, <<>>>>
        ELSE <<SubSeq(p, 1, k - 1), SubSeq(p, k + 1, Len(p))>>

\* the parameters of a URL, in order
ParseQuery(url) ==
    LET parts == Split(QueryString(url), "&")
    IN  [k \in 1..Len(parts) |-> KeyValue(parts[k])]

\* the seven parameters the claim names, for entry identifier E and path P
SevenParameters(E, P) ==
    << <<<<"a", "s", "s", "i", "g", "n", "e", "e", "s">>,
         <<"l", "a", "d", "y", "b", "l", "u", "e", "n", "o", "t", "e",
           "s">>>>,
       <<<<"l", "a", "b", "e", "l", "s">>,
         <<"i", "m", "p", "r", "o", "v", "e", "+", "d", "o", "c", "u",
           "m", "e", "n", "t", "a", "t", "i", "o", "n", "%", "2", "C",
           "p", "e", "n", "d", "i", "n", "g", "+", "r", "e", "v", "i",
           "e", "w">>>>,
       <<<<"p", "r", "o", "j", "e", "c", "t", "s">>,
         <<>>>>,
       <<<<"t", "e", "m", "p", "l", "a", "t", "e">>,
         <<"C", "O", "N", "T", "E", "N", "T", ".", "y", "m", "l">>>>,
       <<<<"t", "i", "t", "l", "e">>,
         <<"[", "C", "o", "n", "t", "e", "n", "t", "]", ":">>>>,
       <<<<"s", "u", "b", "j", "e", "c", "t">>, E>>,
       <<<<"p", "a", "g", "e">>,
         <<"h", "t", "t", "p", "s", ":", "/", "/", "d", "o", "c", "s",
           ".", "s", "o", "l", "i", "d", "j", "s", ".", "c", "o", "m">> \o P>> >>

\* s holds neither the separator of parameters nor the end of the query
NoSeparator(s) == ~Contains(s, <<"&">>) /\ ~Contains(s, <<"#">>)

\* C19, as stated: the query string of the URL splits into exactly the seven
\* parameters assignees, labels, projects, template, title, subject, page,
\* with subject = E and page = "https://docs.solidjs.com" + P, whatever
\* characters P and E hold.
C19_SevenParameters ==
    ~stale => ParseQuery(href) = SevenParameters(entry, pathname)

\* C19, amended: the first five parameters are always the fixed ones; the
\* query splits into exactly the seven parameters, with subject = E and
\* page = "https://docs.solidjs.com" + P, if and only if neither P nor E
\* holds "&" or "#" (a "=" in them changes nothing).
C19_SevenParametersUnlessSeparator ==
    ~stale =>
        LET q == ParseQuery(href)
            seven == SevenParameters(entry, pathname)
        IN  /\ Len(q) >= 5
            /\ SubSeq(q, 1, 5) = SubSeq(seven, 1, 5)
            /\ (q = seven) <=> (NoSeparator(entry) /\ NoSeparator(pathname))

\* the URL of an entry identifier and a path that both hold "=" has the
\* seven parameters
C19_Witness ==
    /\ ~stale
    /\ entry = <<"a", "=", "b">>
    /\ pathname = <<"/", "a", "=", "b">>
    /\ Len(ParseQuery(href)) = 7
    /\ ParseQuery(href)[6] = <<<<"s", "u", "b", "j", "e", "c", "t">>, entry>>

\* ---------------------------------------------------------------- C16
\* C16: once the range setter with by: 2 has run and the loop has ended,
\* loggedIn is false for the even-indexed users and as before for the
\* others, and the loop has left its store in the same state.
C16_RangeEqualsLoop ==
    (rangeDone /\ LoopDone) =>
        /\ \A k \in 1..Len(users0) :
             usersRange[k] = IF (k - 1) % 2 = 0 THEN FALSE ELSE users0[k]
        /\ usersLoop = usersRange

\* ---------------------------------------------------------------- C17
\* C17: a path of the route's form matches exactly when the three filters
\* accept their segments; the two paths the page says match do, and the
\* three it says do not match do not.
C17_MatchIffFiltersAccept ==
    matched # "pending" =>
        LET segs == Split(routePath, "/")
        IN  /\ (matched = "yes") <=>
                 /\ FilterParent(segs[3])
                 /\ FilterId(segs[4])
                 /\ FilterHtml(segs[5])
            /\ routePath \in
                 {RouteURL(<<"m", "o", "m">>, <<"1", "2", "3">>,
                          <<"c", "o", "n", "t", "a", "c", "t", ".", "h", "t", "m", "l">>),
                  RouteURL(<<"d", "a", "d">>, <<"4", "5", "6">>,
                          <<"a", "b", "o", "u", "t", ".", "h", "t", "m", "l">>)}
                 => matched = "yes"
            /\ routePath \in
                 {RouteURL(<<"a", "u", "n", "t">>, <<"1", "2", "3">>,
                          <<"c", "o", "n", "t", "a", "c", "t", ".", "h", "t", "m", "l">>),
                  RouteURL(<<"m", "o", "m">>, <<"m", "e">>,
                          <<"c", "o", "n", "t", "a", "c", "t", ".", "h", "t", "m", "l">>),
                  RouteURL(<<"d", "a", "d">>, <<"1", "2", "3">>,
                          <<"c", "o", "n", "t", "a", "c", "t">>)}
                 => matched = "no"

\* /users/dad/456/about.html has been matched
C17_Witness ==
    /\ matched = "yes"
    /\ routePath = RouteURL(<<"d", "a", "d">>, <<"4", "5", "6">>,
                          <<"a", "b", "o", "u", "t", ".", "h", "t", "m", "l">>)

\* ---------------------------------------------------------------- C18
\* C18: the handler answers 401 when the cookie has no userId; otherwise it
\* asks the store for the user of the cookie's userId, and a user it
\* returns is the one whose id is the cookie's userId.
C18_LookupByCookie ==
    getAt # "start" =>
        /\ cookie \in {"", Undefined} => response.status = 401
        /\ cookie \notin {"", Undefined} => lookedUp = {cookie}
        /\ response.status = 200 => response.body = cookie


\* ---------------------------------------------------------------- C21
\* C21: a selection of the option that is already the active theme is not
\* suppressed: the change handler runs and invokes the theme setter once
\* more, with that same value, and the stored theme is the same after it.
C21_ReselectCallsSetter ==
    [][ (/\ Len(events') = Len(events) + 1
         /\ events'[Len(events')].option \in Options
         /\ events'[Len(events')].option.value = reported)
        => (/\ calls' = Append(calls, reported)
            /\ reported' = reported) ]_vars

\* the same option selected twice in a row: two calls, one stored value
C21_Witness ==
    /\ Len(events) = 2
    /\ events[1].option \in Options
    /\ events[2].option = events[1].option
    /\ calls = <<events[1].option.value, events[1].option.value>>
    /\ reported = events[1].option.value


\* ---------------------------------------------------------------- C22
\* C22: THEME_OPTIONS holds exactly three options, their values pairwise
\* distinct and exactly light, dark and system; the lookup of selectedTheme
\* returns, for each of the three values, the one option with that value,
\* and no option for any other value. So the option looked up for the value
\* the helper reports always carries that value.
C22_LookupIsUnique ==
    /\ Len(THEME_OPTIONS) = 3
    /\ \A j, k \in 1..Len(THEME_OPTIONS) :
         j # k => THEME_OPTIONS[j].value # THEME_OPTIONS[k].value
    /\ {THEME_OPTIONS[k].value : k \in 1..Len(THEME_OPTIONS)}
         = {"light", "dark", "system"}
    /\ \A v \in {"light", "dark", "system"} :
         /\ selectedTheme(v) \in Options
         /\ \A o \in Options : o.value = v <=> o = selectedTheme(v)
    /\ \A v \in OtherValues : selectedTheme(v) = NoOption
    /\ selectedTheme(reported) \in Options
    /\ selectedTheme(reported).value = reported

\* the last of the options selected and looked up: the helper reports
\* system, and both instances show the option found for it
C22_Witness ==
    /\ events # <<>>
    /\ reported = "system"
    /\ selectedTheme(reported) = THEME_OPTIONS[3]
    /\ \A i \in Instances :
         shown[i] = [label |-> THEME_OPTIONS[3].label,
                     icon |-> THEME_OPTIONS[3].icon]


\* ---------------------------------------------------------------- C23
\* the label and the icon an instance shows are those of one same option
Paired(i) ==
    \E o \in Options : shown[i] = [label |-> o.label, icon |-> o.icon]

\* the refresh signal of instance i goes from false to true in this step
Flip(i) == ~refresh[i] /\ refresh'[i]

\* C23 as stated: in both phases the label and the icon belong to one same
\* option, and the flip of the refresh signal changes the wrapper only,
\* never the option shown.
C23_FlipKeepsOption ==
    /\ [](\A i \in Instances : Paired(i))
    /\ [][\A i \in Instances : Flip(i) => shown'[i] = shown[i]]_vars

\* C23, amended: in both phases the label and the icon belong to one same
\* option, the one the select had selected when the phase was rendered. The
\* flip takes the inner div away and renders label and icon again for the
\* value the helper reports then: the option shown changes with the flip
\* only if what was shown before was not the option of that value.
C23_FlipRendersSelectedOption ==
    /\ [](\A i \in Instances :
            /\ Paired(i)
            /\ structure[i] = (IF refresh[i] THEN "main" ELSE "fallback"))
    /\ [][\A i \in Instances : Flip(i) =>
            /\ shown'[i] = Display(reported')
            /\ Paired(i)'
            /\ (shown'[i] # shown[i] => shown[i] # Display(reported))]_vars

\* after hydration with another value, one instance has flipped and shows
\* the option of the reported value without the inner div; the other still
\* shows the option of the first render inside it
C23_Witness ==
    \E i \in mounted, j \in Instances \ mounted :
        /\ structure[i] = "main" /\ structure[j] = "fallback"
        /\ Paired(i) /\ Paired(j)
        /\ shown[i].label # shown[j].label
        /\ shown[i] = Display(reported)
        /\ events = <<>>


\* ---------------------------------------------------------------- C24
\* C24: each of the two instances has a refresh signal of its own: the
\* mount of one leaves the signal (and the wrapper) of the other as it was.
\* Both read the one theme state: after a selection in either instance and
\* the update it causes, both show the selected option.
C24_OwnFlagSharedTheme ==
    /\ [][\A i \in Instances :
            (i \notin mounted /\ i \in mounted') =>
               \A j \in Instances \ {i} :
                  /\ refresh'[j] = refresh[j]
                  /\ refreshCount'[j] = refreshCount[j]
                  /\ structure'[j] = structure[j]]_vars
    /\ [](events # <<>> =>
            LET o == events[Len(events)].option
            IN  o \in Options =>
                   \A i \in Instances :
                      shown[i] = [label |-> o.label, icon |-> o.icon])

\* the header has mounted and the menu has not: one signal is true and the
\* other false; dark was selected in the header and both show Dark
C24_Witness ==
    /\ mounted = {"header"}
    /\ refresh["header"] /\ ~refresh["menu"]
    /\ Len(events) = 1
    /\ events[1].inst = "header"
    /\ events[1].option.value = "dark"
    /\ \A i \in Instances : shown[i] = [label |-> "Dark", icon |-> "moon"]

====
